---- MODULE Spec2Model ----
(***************************************************************************)
(* Verification model of dmschrein/inventory-management:                   *)
(*   - client/next.config.mjs      the remote image allowlist              *)
(*   - the Prisma migration        Purchases.productId NOT NULL + FK       *)
(*   - client/src/app/redux.tsx    the RTK Query api slice, the persisted  *)
(*                                 store and StoreProvider                 *)
(* Each part has its own specification (SpecImage, SpecDb, SpecApi,        *)
(* SpecStore); the variables of the other parts stay at their idle value.  *)
(***************************************************************************)
EXTENDS Integers, Sequences, FiniteSets, TLC

VARIABLES
  \* ---- image allowlist
  imgSrc,        \* the src handed to the image loader, as written
  imgResult,     \* "none" | "allowed" | "rejected"
  \* ---- database and migration
  products,      \* set of Products.productId values (primary key)
  purchases,     \* purchaseId -> productId or Null, for the rows that exist
  expenseRows,   \* number of rows of ExpenseSummary
  fk,            \* state of Purchases_productId_fkey: "old" | "none" | "restrict"
  productIdRequired, \* Purchases.productId is NOT NULL
  migPc,         \* position in the migration script
  failedAt,      \* the statement that raised the error, or "none"
  atStart,       \* history: what the database held when the migration started
  lastDml,       \* history: the last DML statement, its outcome and the tables before it
  \* ---- RTK Query api slice
  invalidationBehavior,  \* "immediately" | "delayed": the library's setting, not set by the code
  cache,         \* query cache key -> [status, subscribed, tagged], for the entries that exist
  net,           \* HTTP requests in flight whose response is awaited
  orphans,       \* some request is in flight whose cache entry has been removed
  mutations,     \* createProduct calls in flight: [id, arg]
  pendingTagInvalidations, \* tags waiting for the pending requests to settle
  \* ---- persisted store and StoreProvider
  hasWindow,     \* typeof window !== "undefined": browser, else server rendering
  storeRef,      \* storeRef.current: <<>> (undefined) or <<store id>>
  makeStoreCalls,      \* history: number of makeStore() calls
  setupListenersCalls, \* history: number of setupListeners() calls
  renders,       \* history: number of renders of StoreProvider
  providedStores,\* history: the stores handed to <Provider store=...>
  root,          \* the store's state: key -> value, "_persist" included
  persistors,    \* one record per persistStore() call, in call order
  gate,          \* the PersistGate instance
  shown,         \* what StoreProvider's tree shows: "nothing" | "loading" | "children"
  storage,       \* the item "persist:root" of local storage: <<>> or <<key -> value>>
  lastState,     \* persistoid: the state last handed to update()
  keysToProcess, \* persistoid: keys waiting to be serialized
  stagedState    \* persistoid: the serialized keys, written as one item

imgVars == <<imgSrc, imgResult>>
dbVars == <<products, purchases, expenseRows, fk, productIdRequired, migPc,
            failedAt, atStart, lastDml>>
apiVars == <<invalidationBehavior, cache, net, orphans, mutations,
             pendingTagInvalidations>>
storeVars == <<hasWindow, storeRef, makeStoreCalls, setupListenersCalls, renders,
               providedStores, root, persistors, gate, shown, storage, lastState,
               keysToProcess, stagedState>>
vars == <<imgVars, dbVars, apiVars, storeVars>>

\* SQL NULL in Purchases.productId; product ids are 1, 2, ...
Null == 0
NoDml == [kind |-> "none"]

(***************************************************************************)
(* Idle values: a part that a specification does not run.                  *)
(***************************************************************************)
ImageIdle == imgSrc = "none" /\ imgResult = "none"

DbIdle ==
  /\ products = {} /\ purchases = <<>> /\ expenseRows = 0
  /\ fk = "old" /\ productIdRequired = FALSE
  /\ migPc = "idle" /\ failedAt = "none"
  /\ atStart = "none" /\ lastDml = NoDml

ApiIdle ==
  /\ invalidationBehavior = "immediately" /\ cache = <<>> /\ net = {}
  /\ orphans = FALSE /\ mutations = {} /\ pendingTagInvalidations = {}

StoreIdle ==
  /\ hasWindow = TRUE /\ storeRef = <<>> /\ makeStoreCalls = 0
  /\ setupListenersCalls = 0 /\ renders = 0 /\ providedStores = {}
  /\ root = <<>> /\ persistors = <<>> /\ gate = <<>> /\ shown = "nothing"
  /\ storage = <<>> /\ lastState = <<>> /\ keysToProcess = <<>> /\ stagedState = <<>>

(***************************************************************************)
(* IMAGE ALLOWLIST  (client/next.config.mjs)                               *)
(***************************************************************************)
BucketHost == "s3-evvieai.s3.us-west-2.amazonaws.com"

\* images.remotePatterns of nextConfig: one pattern.
remotePatterns ==
  { [protocol |-> "https", hostname |-> BucketHost, port |-> "", pathname |-> "/**"] }

\* The sources tried: scheme, host as written, port as written ("" = none), path.
Schemes == {"http", "https"}
HostsWritten == { BucketHost,
                  "S3-EVVIEAI.S3.US-WEST-2.AMAZONAWS.COM",
                  "evil.s3-evvieai.s3.us-west-2.amazonaws.com",
                  "s3-evvieai.s3.us-west-2.amazonaws.com.evil.io",
                  "s3-evvieaiXs3.us-west-2.amazonaws.com",
                  "other-bucket.s3.us-west-2.amazonaws.com" }
PortsWritten == {"", "443", "80", "8080"}
Paths == {"/", "/product1.png", "/a/b/.hidden.png"}

ImageSources == [scheme : Schemes, host : HostsWritten, port : PortsWritten, path : Paths]

\* URL parsing lowercases an ASCII host.
LowerHost(h) ==
  IF h = "S3-EVVIEAI.S3.US-WEST-2.AMAZONAWS.COM" THEN BucketHost ELSE h

DefaultPort(scheme) == IF scheme = "https" THEN "443" ELSE "80"

\* new URL(src): the parsed URL the loader matches. A port equal to the
\* scheme's default is dropped by the parser, so url.port is "".
ParseUrl(src) ==
  [protocol |-> src.scheme,
   hostname |-> LowerHost(src.host),
   port     |-> IF src.port = DefaultPort(src.scheme) THEN "" ELSE src.port,
   pathname |-> src.path]

\* The hostname pattern holds no glob character: every character, the dots
\* included, matches itself only.
HostnameMatches(pattern, hostname) == pattern = hostname

\* "/**" with dot: true matches every absolute path.
PathnameMatches(pattern, pathname) ==
  IF pattern = "/**" THEN pathname \in Paths ELSE pattern = pathname

matchRemotePatternNoPort(pattern, url) ==
  /\ pattern.protocol = url.protocol
  /\ HostnameMatches(pattern.hostname, url.hostname)
  /\ PathnameMatches(pattern.pathname, url.pathname)

matchRemotePattern(pattern, url) ==
  /\ pattern.protocol = url.protocol
  /\ pattern.port = url.port
  /\ HostnameMatches(pattern.hostname, url.hostname)
  /\ PathnameMatches(pattern.pathname, url.pathname)

hasRemoteMatch(url) == \E p \in remotePatterns : matchRemotePattern(p, url)

InitImage ==
  /\ imgSrc \in ImageSources
  /\ imgResult = "none"
  /\ DbIdle
  /\ ApiIdle
  /\ StoreIdle

\* The image loader is asked for imgSrc.
LoadImage ==
  /\ imgSrc \in ImageSources
  /\ imgResult = "none"
  /\ imgResult' = IF hasRemoteMatch(ParseUrl(imgSrc)) THEN "allowed" ELSE "rejected"
  /\ UNCHANGED <<imgSrc, dbVars, apiVars, storeVars>>

NextImage == LoadImage

SpecImage == InitImage /\ [][NextImage]_vars

\* C4 (as stated): a source is admitted iff it is https, its host is exactly
\* the bucket host and it carries no port; a source with an explicit port is
\* rejected.
C4_AsStated ==
  imgResult # "none" =>
    (imgResult = "allowed" <=>
       /\ imgSrc.scheme = "https"
       /\ LowerHost(imgSrc.host) = BucketHost
       /\ imgSrc.port = "")

\* C4 (amended): a source is admitted iff it is https, its host is exactly
\* the bucket host and it carries no port or the https default port 443,
\* with any path; every other host, protocol or port is rejected.
C4_Allowlist ==
  imgResult # "none" =>
    (imgResult = "allowed" <=>
       /\ imgSrc.scheme = "https"
       /\ LowerHost(imgSrc.host) = BucketHost
       /\ imgSrc.port \in {"", "443"})

C4_Witness ==
  /\ imgResult = "allowed"
  /\ imgSrc.port = "443"
  /\ imgSrc.path = "/a/b/.hidden.png"

(***************************************************************************)
(* DATABASE AND MIGRATION  (the Prisma migration script)                   *)
(***************************************************************************)
MaxProductId == 3
MaxPurchaseId == 2
MaxExpenseRows == 1

ProductIds == 1..MaxProductId
PurchaseIds == 1..MaxPurchaseId

\* The tables as a snapshot, for the history variables.
Tables == [products |-> products, purchases |-> purchases]

HasNullProductId(rows) == \E id \in DOMAIN rows : rows[id] = Null

\* Purchases rows whose productId names no Products row.
Dangling(rows, prods) ==
  { id \in DOMAIN rows : rows[id] # Null /\ rows[id] \notin prods }

\* Before the migration: any content of the three tables. The constraint the
\* script drops first is defined elsewhere, so nothing is assumed of what it
\* enforced; productId is still nullable.
InitDb ==
  /\ products \in SUBSET ProductIds
  /\ \E ids \in SUBSET PurchaseIds :
       purchases \in [ids -> ProductIds \cup {Null}]
  /\ expenseRows \in 0..MaxExpenseRows
  /\ fk = "old"
  /\ productIdRequired = FALSE
  /\ migPc = "start"
  /\ failedAt = "none"
  /\ atStart = [hasNull |-> HasNullProductId(purchases), expenseRows |-> expenseRows]
  /\ lastDml = NoDml
  /\ ImageIdle
  /\ ApiIdle
  /\ StoreIdle

\* The parts the database steps leave alone.
notDb == <<imgVars, apiVars, storeVars>>

\* A statement raised an error: the script stops, and the implicit
\* transaction the script runs in is rolled back.
MigrationFails(stmt) ==
  /\ migPc' = "failed"
  /\ failedAt' = stmt
  /\ fk' = "old"
  /\ productIdRequired' = FALSE
  /\ UNCHANGED <<products, purchases, expenseRows, atStart, lastDml, notDb>>

\* ALTER TABLE "Purchases" DROP CONSTRAINT "Purchases_productId_fkey";
DropForeignKey ==
  /\ migPc = "start"
  /\ fk = "old"
  /\ fk' = "none"
  /\ migPc' = "fkDropped"
  /\ UNCHANGED <<products, purchases, expenseRows, productIdRequired, failedAt,
                 atStart, lastDml, notDb>>

\* ALTER TABLE "ExpenseSummary" DROP COLUMN "date", ADD COLUMN "date" ... NOT NULL;
\* the new required column has no default, so an existing row would hold NULL.
AlterExpenseSummaryFails == expenseRows > 0

AlterExpenseSummary ==
  /\ migPc = "fkDropped"
  /\ IF AlterExpenseSummaryFails
       THEN MigrationFails("AlterExpenseSummary")
       ELSE /\ migPc' = "dateRecreated"
            /\ UNCHANGED <<products, purchases, expenseRows, fk, productIdRequired,
                           failedAt, atStart, lastDml, notDb>>

\* ALTER TABLE "Purchases" ALTER COLUMN "productId" SET NOT NULL;
SetNotNullNeverFails == FALSE

SetNotNullFails == HasNullProductId(purchases)

SetNotNull ==
  /\ migPc = "dateRecreated"
  /\ IF SetNotNullFails
       THEN MigrationFails("SetNotNull")
       ELSE /\ productIdRequired' = TRUE
            /\ migPc' = "required"
            /\ UNCHANGED <<products, purchases, expenseRows, fk, failedAt,
                           atStart, lastDml, notDb>>

\* ALTER TABLE "Purchases" ADD CONSTRAINT "Purchases_productId_fkey"
\*   FOREIGN KEY ("productId") REFERENCES "Products"("productId")
\*   ON DELETE RESTRICT ON UPDATE CASCADE;
FkOnDeleteCascade == "CASCADE"

FkOnDelete == "RESTRICT"

FkOnUpdate == "CASCADE"

\* Adding the constraint validates the rows already there.
AddForeignKeyFails == Dangling(purchases, products) # {}

AddForeignKey ==
  /\ migPc = "required"
  /\ IF AddForeignKeyFails
       THEN MigrationFails("AddForeignKey")
       ELSE /\ fk' = "restrict"
            /\ migPc' = "applied"
            /\ UNCHANGED <<products, purchases, expenseRows, productIdRequired,
                           failedAt, atStart, lastDml, notDb>>

(***************************************************************************)
(* DML against the migrated schema. Every statement is recorded in lastDml *)
(* with its outcome and the tables before it.                              *)
(***************************************************************************)
Referencing(rows, p) == { id \in DOMAIN rows : rows[id] = p }

\* The column and foreign-key checks on a productId written to Purchases.
PurchaseValueAccepted(v) ==
  /\ productIdRequired => v # Null
  /\ (fk = "restrict" /\ v # Null) => v \in products

DmlFrame ==
  UNCHANGED <<expenseRows, fk, productIdRequired, migPc, failedAt, atStart, notDb>>

Rejected(stmt) ==
  /\ lastDml' = stmt @@ [outcome |-> "rejected", before |-> Tables]
  /\ UNCHANGED <<products, purchases>>

Accepted(stmt) == lastDml' = stmt @@ [outcome |-> "ok", before |-> Tables]

InsertProduct(p) ==
  /\ migPc = "applied"
  /\ p \notin products
  /\ products' = products \cup {p}
  /\ UNCHANGED purchases
  /\ Accepted([kind |-> "insertProduct", pid |-> p])
  /\ DmlFrame

InsertPurchase(id, v) ==
  /\ migPc = "applied"
  /\ id \notin DOMAIN purchases
  /\ LET stmt == [kind |-> "insertPurchase", id |-> id, value |-> v] IN
       IF PurchaseValueAccepted(v)
         THEN /\ purchases' = [i \in DOMAIN purchases \cup {id} |->
                                 IF i = id THEN v ELSE purchases[i]]
              /\ UNCHANGED products
              /\ Accepted(stmt)
         ELSE Rejected(stmt)
  /\ DmlFrame

UpdatePurchase(id, v) ==
  /\ migPc = "applied"
  /\ id \in DOMAIN purchases
  /\ LET stmt == [kind |-> "updatePurchase", id |-> id, value |-> v] IN
       IF PurchaseValueAccepted(v)
         THEN /\ purchases' = [purchases EXCEPT ![id] = v]
              /\ UNCHANGED products
              /\ Accepted(stmt)
         ELSE Rejected(stmt)
  /\ DmlFrame

DeletePurchase(id) ==
  /\ migPc = "applied"
  /\ id \in DOMAIN purchases
  /\ purchases' = [i \in DOMAIN purchases \ {id} |-> purchases[i]]
  /\ UNCHANGED products
  /\ Accepted([kind |-> "deletePurchase", id |-> id])
  /\ DmlFrame

\* DELETE FROM "Products" WHERE "productId" = p
DeleteProduct(p) ==
  /\ migPc = "applied"
  /\ p \in products
  /\ LET stmt == [kind |-> "deleteProduct", pid |-> p]
         refs == Referencing(purchases, p) IN
       IF fk # "restrict" \/ refs = {}
         THEN /\ products' = products \ {p}
              /\ UNCHANGED purchases
              /\ Accepted(stmt)
         ELSE CASE FkOnDelete = "RESTRICT" -> Rejected(stmt)
                [] FkOnDelete = "CASCADE" ->
                     /\ products' = products \ {p}
                     /\ purchases' = [i \in DOMAIN purchases \ refs |-> purchases[i]]
                     /\ Accepted(stmt)
                [] OTHER -> Rejected(stmt)
  /\ DmlFrame

\* UPDATE "Products" SET "productId" = q WHERE "productId" = p
UpdateProductId(p, q) ==
  /\ migPc = "applied"
  /\ p \in products
  /\ q \notin products
  /\ LET stmt == [kind |-> "updateProductId", pid |-> p, newPid |-> q]
         refs == Referencing(purchases, p) IN
       IF fk # "restrict" \/ refs = {}
         THEN /\ products' = (products \ {p}) \cup {q}
              /\ UNCHANGED purchases
              /\ Accepted(stmt)
         ELSE CASE FkOnUpdate = "CASCADE" ->
                     /\ products' = (products \ {p}) \cup {q}
                     /\ purchases' = [i \in DOMAIN purchases |->
                                        IF i \in refs THEN q ELSE purchases[i]]
                     /\ Accepted(stmt)
                [] OTHER -> Rejected(stmt)
  /\ DmlFrame

NextDb ==
  \/ DropForeignKey
  \/ AlterExpenseSummary
  \/ SetNotNull
  \/ AddForeignKey
  \/ \E p \in ProductIds : InsertProduct(p)
  \/ \E id \in PurchaseIds, v \in ProductIds \cup {Null} : InsertPurchase(id, v)
  \/ \E id \in PurchaseIds, v \in ProductIds \cup {Null} : UpdatePurchase(id, v)
  \/ \E id \in PurchaseIds : DeletePurchase(id)
  \/ \E p \in ProductIds : DeleteProduct(p)
  \/ \E p, q \in ProductIds : UpdateProductId(p, q)

SpecDb == InitDb /\ [][NextDb]_vars

\* C3: once the migration is applied, every Purchases row has a non-NULL
\* productId naming an existing Products row; a DELETE of a Products row that a
\* Purchases row references is rejected and leaves both tables as they were;
\* an UPDATE of Products.productId rewrites the referencing Purchases rows.
C3_ReferentialIntegrity ==
  migPc = "applied" =>
    /\ \A id \in DOMAIN purchases :
         purchases[id] # Null /\ purchases[id] \in products
    /\ (/\ lastDml.kind = "deleteProduct"
        /\ Referencing(lastDml.before.purchases, lastDml.pid) # {})
         => /\ lastDml.outcome = "rejected"
            /\ Tables = lastDml.before
    /\ lastDml.kind = "updateProductId" =>
         /\ lastDml.outcome = "ok"
         /\ lastDml.pid \notin products
         /\ lastDml.newPid \in products
         /\ DOMAIN purchases = DOMAIN lastDml.before.purchases
         /\ \A id \in DOMAIN purchases :
              purchases[id] = IF lastDml.before.purchases[id] = lastDml.pid
                                THEN lastDml.newPid
                                ELSE lastDml.before.purchases[id]

C3_Witness ==
  /\ migPc = "applied"
  /\ lastDml.kind = "deleteProduct"
  /\ lastDml.outcome = "rejected"
  /\ Cardinality(DOMAIN purchases) = 2
  /\ Cardinality(products) >= 2

\* C8 (as stated): with a NULL productId in Purchases the migration fails at
\* the SET NOT NULL statement and the column is not made NOT NULL.
C8_AsStated ==
  (atStart.hasNull /\ migPc \in {"applied", "failed"}) =>
    /\ migPc = "failed"
    /\ failedAt = "SetNotNull"
    /\ ~productIdRequired

\* C8 (amended): with a NULL productId in Purchases the migration fails and the
\* column is not made NOT NULL; it fails at the SET NOT NULL statement when
\* ExpenseSummary is empty, and otherwise already at the ExpenseSummary
\* statement before it.
C8_MigrationFailsOnNull ==
  (atStart.hasNull /\ migPc \in {"applied", "failed"}) =>
    /\ migPc = "failed"
    /\ failedAt = IF atStart.expenseRows > 0 THEN "AlterExpenseSummary" ELSE "SetNotNull"
    /\ ~productIdRequired
    /\ HasNullProductId(purchases)

C8_Witness ==
  /\ atStart.hasNull
  /\ migPc = "failed"
  /\ failedAt = "SetNotNull"

(***************************************************************************)
(* RTK QUERY API SLICE  (client/src/app/redux.tsx, createApi)              *)
(*                                                                         *)
(* The code declares the endpoints, their queries and their tags; the      *)
(* cache is the library's. An entry records whether some component         *)
(* subscribes to it (the library counts subscribers and tests the count    *)
(* against zero only). A query that fails is not modelled.                 *)
(***************************************************************************)
MaxEntries == 2
MaxInFlight == 1

tagTypes == {"DashboardMetrics", "Products", "Users", "Expenses"}

\* An endpoint argument: <<>> is void, <<s>> the string s.
Void == <<>>
SearchArgs == {Void, <<"">>, <<"shoe">>}

\* JavaScript truthiness of a string | void argument.
Truthy(arg) == arg # Void /\ arg[1] # ""

QueryEndpoints == {"getDashboardMetrics", "getProducts", "getUsers", "getExpensesByCategory"}

\* The cache keys: endpoint name and serialized argument.
QueryKeys ==
  { [endpoint |-> "getProducts", arg |-> a] : a \in SearchArgs }
    \cup { [endpoint |-> e, arg |-> Void] : e \in QueryEndpoints \ {"getProducts"} }

\* providesTags of each query endpoint.
providesTags(endpoint) ==
  CASE endpoint = "getDashboardMetrics"   -> {"DashboardMetrics"}
    [] endpoint = "getProducts"           -> {"Products"}
    [] endpoint = "getUsers"              -> {"Users"}
    [] endpoint = "getExpensesByCategory" -> {"Expenses"}

\* invalidatesTags of createProduct.
invalidatesTagsNone == {}

invalidatesTags == {"Products"}

\* The payloads tried.
NewProducts ==
  { [name |-> "Shoe", price |-> 10, stockQuantity |-> 5],
    [name |-> "Hat", price |-> 3, rating |-> 4, stockQuantity |-> 0] }

\* Query parameters are a set of <<name, value>> pairs.
NoParams == {}

\* fetchBaseQuery sends GET unless the endpoint's query names a method.
HttpGet(url, params) == [method |-> "GET", url |-> url, params |-> params]

\* getProducts' query: (search) => ({url, params: search ? {search} : {}})
getProductsQueryAlwaysSearch(search) ==
  HttpGet("/products", {<<"search", IF search = Void THEN "undefined" ELSE search[1]>>})

getProductsQuery(search) ==
  HttpGet("/products", IF Truthy(search) THEN {<<"search", search[1]>>} ELSE NoParams)

\* The query of each query endpoint.
queryOf(key) ==
  CASE key.endpoint = "getDashboardMetrics"   -> HttpGet("/dashboard", NoParams)
    [] key.endpoint = "getProducts"           -> getProductsQuery(key.arg)
    [] key.endpoint = "getUsers"              -> HttpGet("/users", NoParams)
    [] key.endpoint = "getExpensesByCategory" -> HttpGet("/expenses", NoParams)

\* createProduct's query: (newProduct) => ({url, method: "POST", body: newProduct})
createProductQueryNoMethod(newProduct) ==
  [method |-> "GET", url |-> "/products", params |-> NoParams, body |-> newProduct]

createProductQuery(newProduct) ==
  [method |-> "POST", url |-> "/products", params |-> NoParams, body |-> newProduct]

\* The request in flight for a cache entry, and for a mutation.
QueryRequest(key) == [kind |-> "query", key |-> key, http |-> queryOf(key)]

MutationRequest(id, arg) == [kind |-> "mutation", id |-> id, http |-> createProductQuery(arg)]

InitApi ==
  /\ invalidationBehavior \in {"immediately", "delayed"}
  /\ cache = <<>>
  /\ net = {}
  /\ orphans = FALSE
  /\ mutations = {}
  /\ pendingTagInvalidations = {}
  /\ ImageIdle
  /\ DbIdle
  /\ StoreIdle

notApi == <<imgVars, dbVars, storeVars>>

Entries(c) == DOMAIN c

\* A component mounts a query hook: useGetProductsQuery(search), ...
\* A first subscriber starts the request; a later one shares the entry.
Subscribe(key) ==
  /\ IF key \in Entries(cache)
       THEN /\ ~cache[key].subscribed
            /\ cache' = [cache EXCEPT ![key].subscribed = TRUE]
            /\ UNCHANGED net
       ELSE /\ Cardinality(Entries(cache)) < MaxEntries
            /\ cache' = [k \in Entries(cache) \cup {key} |->
                           IF k = key
                             THEN [status |-> "pending", subscribed |-> TRUE, tagged |-> FALSE]
                             ELSE cache[k]]
            /\ net' = net \cup {QueryRequest(key)}
  /\ UNCHANGED <<invalidationBehavior, orphans, mutations, pendingTagInvalidations, notApi>>

\* The last subscribed component unmounts, or its argument changes.
Unsubscribe(key) ==
  /\ key \in Entries(cache)
  /\ cache[key].subscribed
  /\ cache' = [cache EXCEPT ![key].subscribed = FALSE]
  /\ UNCHANGED <<invalidationBehavior, net, orphans, mutations, pendingTagInvalidations,
                 notApi>>

\* Removing entries: their requests stay in flight with nobody waiting.
Remove(c, n, o, keys) ==
  [cache   |-> [k \in Entries(c) \ keys |-> c[k]],
   net     |-> { r \in n : ~(r.kind = "query" /\ r.key \in keys) },
   orphans |-> o \/ \E r \in n : r.kind = "query" /\ r.key \in keys]

\* keepUnusedDataFor has passed with no subscriber left.
RemoveUnused(key) ==
  /\ key \in Entries(cache)
  /\ ~cache[key].subscribed
  /\ LET r == Remove(cache, net, orphans, {key}) IN
       /\ cache' = r.cache
       /\ net' = r.net
       /\ orphans' = r.orphans
  /\ UNCHANGED <<invalidationBehavior, mutations, pendingTagInvalidations, notApi>>

HasPendingRequests(c, m) ==
  \/ \E k \in Entries(c) : c[k].status = "pending"
  \/ m # {}

\* The entries that provide one of the tags.
InvalidatedBy(c, tags) ==
  { k \in Entries(c) : c[k].tagged /\ providesTags(k.endpoint) \cap tags # {} }

\* Invalidation of tags over cache c with requests n in flight: an entry
\* nobody subscribes to is removed, a subscribed one is refetched unless its
\* request is already in flight.
Invalidate(c, n, o, tags) ==
  LET hit       == InvalidatedBy(c, tags)
      removed   == { k \in hit : ~c[k].subscribed }
      refetched == { k \in hit : c[k].subscribed /\ c[k].status # "pending" }
      r         == Remove(c, n, o, removed)
  IN  [cache   |-> [k \in Entries(r.cache) |->
                      IF k \in refetched THEN [c[k] EXCEPT !.status = "pending"] ELSE c[k]],
       net     |-> r.net \cup { QueryRequest(k) : k \in refetched },
       orphans |-> r.orphans]

\* The invalidation handler, run with newTags after cache c, requests n and
\* mutations m have taken the action's own change.
HandleInvalidation(c, n, o, m, newTags) ==
  LET tags == pendingTagInvalidations \cup newTags IN
    IF invalidationBehavior = "delayed" /\ HasPendingRequests(c, m)
      THEN /\ pendingTagInvalidations' = tags
           /\ cache' = c
           /\ net' = n
           /\ orphans' = o
      ELSE LET r == Invalidate(c, n, o, tags) IN
             /\ pendingTagInvalidations' = {}
             /\ cache' = r.cache
             /\ net' = r.net
             /\ orphans' = r.orphans

\* The response of a query's request arrives.
QueryFulfilled(key) ==
  /\ QueryRequest(key) \in net
  /\ HandleInvalidation(
       [cache EXCEPT ![key] = [@ EXCEPT !.status = "fulfilled", !.tagged = TRUE]],
       net \ {QueryRequest(key)}, orphans, mutations, {})
  /\ UNCHANGED <<invalidationBehavior, mutations, notApi>>

\* The responses of the requests whose entries are gone arrive: no entry
\* takes them, the handler runs.
OrphansFulfilled ==
  /\ orphans
  /\ HandleInvalidation(cache, net, FALSE, mutations, {})
  /\ UNCHANGED <<invalidationBehavior, mutations, notApi>>

MutationRecords == [id : 1..MaxInFlight, arg : NewProducts]

FreeIds == { i \in 1..MaxInFlight : \A m \in mutations : m.id # i }

\* The createProduct trigger is invoked with a payload.
CreateProduct(newProduct) ==
  /\ FreeIds # {}
  /\ LET id == CHOOSE i \in FreeIds : \A j \in FreeIds : i <= j IN
       /\ mutations' = mutations \cup {[id |-> id, arg |-> newProduct]}
       /\ net' = net \cup {MutationRequest(id, newProduct)}
  /\ UNCHANGED <<invalidationBehavior, cache, orphans, pendingTagInvalidations, notApi>>

\* The POST is answered, with the created product or with an error response:
\* the tags are invalidated either way.
MutationSettled(m) ==
  /\ m \in mutations
  /\ mutations' = mutations \ {m}
  /\ HandleInvalidation(cache, net \ {MutationRequest(m.id, m.arg)}, orphans,
                        mutations \ {m}, invalidatesTags)
  /\ UNCHANGED <<invalidationBehavior, notApi>>

NextApi ==
  \/ \E key \in QueryKeys : Subscribe(key)
  \/ \E key \in QueryKeys : Unsubscribe(key)
  \/ \E key \in QueryKeys : RemoveUnused(key)
  \/ \E key \in QueryKeys : QueryFulfilled(key)
  \/ OrphansFulfilled
  \/ \E newProduct \in NewProducts : CreateProduct(newProduct)
  \/ \E m \in MutationRecords : MutationSettled(m)

SpecApi == InitApi /\ [][NextApi]_vars

ProductsKeys == { k \in QueryKeys : k.endpoint = "getProducts" }

DashboardKey == [endpoint |-> "getDashboardMetrics", arg |-> Void]

\* The entry of key holds a result, is subscribed and has no request in flight.
CachedAndSubscribed(key) ==
  /\ key \in Entries(cache)
  /\ cache[key].subscribed
  /\ cache[key].status = "fulfilled"

\* The step refetches the entry of key.
Refetched(key) ==
  /\ key \in Entries(cache')
  /\ cache'[key].status = "pending"
  /\ QueryRequest(key) \in net'

\* A createProduct call settles in this step.
MutationSettles == \E m \in mutations : m \notin mutations'

\* The step processes the invalidation of a settled createProduct: at once, or
\* after the requests that were pending have settled.
ProcessesInvalidation ==
  /\ pendingTagInvalidations' = {}
  /\ MutationSettles \/ pendingTagInvalidations # {}

\* Each call in flight has exactly one request in flight, a POST to /products
\* with the call's payload as body, and no other request is a mutation's.
OnePostPerCall ==
  /\ \A m \in mutations :
       /\ Cardinality({ r \in net : r.kind = "mutation" /\ r.id = m.id }) = 1
       /\ \A r \in net :
            (r.kind = "mutation" /\ r.id = m.id) =>
              r.http = [method |-> "POST", url |-> "/products", params |-> {},
                        body |-> m.arg]
  /\ \A r \in net :
       r.kind = "mutation" => \E m \in mutations : m.id = r.id
  /\ \A r \in net : r.kind = "query" => r.http.method = "GET"

C5_AsStated ==
  [][ ProcessesInvalidation => (CachedAndSubscribed(DashboardKey) => Refetched(DashboardKey))
    ]_vars

GetProductsRequests == { r \in net : r.kind = "query" /\ r.key.endpoint = "getProducts" }

\* C2 (as stated): a getProducts request is a GET to /products that carries
\* search=<term> when the argument is a string and no parameter when it is void.
C2_AsStated ==
  \A r \in GetProductsRequests :
    /\ r.http.method = "GET"
    /\ r.http.url = "/products"
    /\ r.key.arg # Void => r.http.params = {<<"search", r.key.arg[1]>>}
    /\ r.key.arg = Void => r.http.params = {}

\* C2 (amended): a getProducts request is a GET to /products that carries
\* search=<term> when the argument is a non-empty string, and no parameter
\* when it is void or the empty string.
C2_GetProductsRequest ==
  \A r \in GetProductsRequests :
    /\ r.http.method = "GET"
    /\ r.http.url = "/products"
    /\ (r.key.arg # Void /\ r.key.arg # <<"">>)
         => r.http.params = {<<"search", r.key.arg[1]>>}
    /\ (r.key.arg = Void \/ r.key.arg = <<"">>) => r.http.params = {}

C2_Witness ==
  /\ \E r \in GetProductsRequests : r.key.arg = <<"">>
  /\ \E r \in GetProductsRequests : r.key.arg = <<"shoe">>

(***************************************************************************)
(* PERSISTED STORE AND StoreProvider  (client/src/app/redux.tsx)           *)
(***************************************************************************)
MaxRenders == 3

\* The keys of the root state: the two slices of rootReducer, and the key
\* persistReducer adds.
SliceKeys == <<"global", "api">>
StateKeys == SliceKeys \o <<"_persist">>
Keys == { StateKeys[n] : n \in 1..Len(StateKeys) }

\* The values a slice takes, as the application and the query cache change it.
GlobalVals == {"light", "dark"}
ApiVals == {"empty", "cached"}

EmptyMap == [k \in {} |-> ""]

\* persistConfig
persistKey == "root"

whitelistWithApi == {"global", "api"}

whitelist == {"global"}

\* JSON text of a value, and its value.
Serialize(v) == <<"json", v>>
Deserialize(text) == text[2]

\* createNoopStorage() on the server, createWebStorage("local") in the browser.
getItem == IF hasWindow THEN storage ELSE <<>>

setItem(item) == IF hasWindow THEN storage' = <<item>> ELSE UNCHANGED storage

\* The state a new store starts in: the slices' initial states, no _persist.
InitialRoot ==
  [k \in Keys |-> CASE k = "global" -> "light"
                    [] k = "api" -> "empty"
                    [] OTHER -> "absent"]

NoLastState == [k \in Keys |-> "undefined"]

NoGate == [mounted |-> FALSE, subscribedTo |-> 0, bootstrapped |-> FALSE, persistor |-> 0]

\* What an earlier session of this application left in local storage.
StoredItems ==
  { [k \in {"global", "_persist"} |->
       IF k = "global" THEN Serialize(g) ELSE Serialize("rehydrated")] : g \in GlobalVals }

InitStore ==
  /\ hasWindow \in BOOLEAN
  /\ storeRef = <<>>
  /\ makeStoreCalls = 0
  /\ setupListenersCalls = 0
  /\ renders = 0
  /\ providedStores = {}
  /\ root = InitialRoot
  /\ persistors = <<>>
  /\ gate = NoGate
  /\ shown = "nothing"
  /\ storage \in IF hasWindow THEN {<<>>} \cup { <<item>> : item \in StoredItems } ELSE {<<>>}
  /\ lastState = NoLastState
  /\ keysToProcess = <<>>
  /\ stagedState = EmptyMap
  /\ ImageIdle
  /\ DbIdle
  /\ ApiIdle

notStore == <<imgVars, dbVars, apiVars>>

\* getStoredState: undefined (<<>>) when the item is missing, else every key
\* of the item, deserialized.
getStoredState ==
  IF getItem = <<>>
    THEN <<>>
    ELSE << [k \in DOMAIN getItem[1] |-> Deserialize(getItem[1][k])] >>

\* autoMergeLevel1: every key of the inbound state but _persist replaces the
\* store's (no reducer changes a slice on REHYDRATE).
autoMergeLevel1(inbound, state) ==
  [k \in Keys |->
     IF Len(inbound) = 1 /\ k \in DOMAIN inbound[1] /\ k # "_persist"
       THEN inbound[1][k]
       ELSE state[k]]

passWhitelistBlacklist(key) == key \in whitelist \/ key = "_persist"

InQueue(queue, key) == \E n \in 1..Len(queue) : queue[n] = key

\* persistoid.update(state): queue the persisted keys that changed.
UpdateQueue(state) ==
  LET Changed(key) == /\ passWhitelistBlacklist(key)
                      /\ lastState[key] # state[key]
                      /\ ~InQueue(keysToProcess, key)
  IN  keysToProcess \o SelectSeq(StateKeys, Changed)

\* conditionalUpdate(state), after the reducer returned state.
conditionalUpdate(state) ==
  IF state["_persist"] = "rehydrated"
    THEN /\ keysToProcess' = UpdateQueue(state)
         /\ lastState' = state
    ELSE UNCHANGED <<keysToProcess, lastState>>

\* if (!storeRef.current)
NeedsStoreAlways == TRUE

NeedsStore == storeRef = <<>>

\* What PersistGate renders: children once bootstrapped, else loading (null).
GateRendersAlwaysChildren(bootstrapped) == "children"

GateRenders(bootstrapped) == IF bootstrapped THEN "children" ELSE "loading"

\* handlePersistorState of a gate subscribed to persistor i, with the
\* persistors as ps: it reads the persistor of its current props.
handlePersistorState(g, ps, i) ==
  IF g.mounted /\ g.subscribedTo = i /\ ps[g.persistor].bootstrapped
    THEN [g EXCEPT !.bootstrapped = TRUE, !.subscribedTo = 0]
    ELSE g

\* A render of StoreProvider: the store is made on the first one; every one
\* calls persistStore, which dispatches PERSIST.
Render ==
  /\ renders < MaxRenders
  /\ renders = 0 \/ gate.mounted \/ ~hasWindow
  /\ LET make   == NeedsStore
         state0 == IF make THEN InitialRoot ELSE root
         first  == state0["_persist"] = "absent"
         i      == Len(persistors) + 1
         rec    == [registry     |-> IF first THEN <<persistKey>> ELSE <<>>,
                    bootstrapped |-> FALSE,
                    sealed       |-> FALSE,
                    timer        |-> TRUE,
                    reading      |-> first,
                    payload      |-> IF first THEN getStoredState ELSE <<>>]
     IN  /\ storeRef' = IF make THEN <<makeStoreCalls + 1>> ELSE storeRef
         /\ makeStoreCalls' = IF make THEN makeStoreCalls + 1 ELSE makeStoreCalls
         /\ setupListenersCalls' = IF make THEN setupListenersCalls + 1
                                           ELSE setupListenersCalls
         /\ root' = IF first THEN [state0 EXCEPT !["_persist"] = "notRehydrated"]
                             ELSE state0
         /\ persistors' = Append(persistors, rec)
         /\ providedStores' = providedStores \cup {storeRef'[1]}
         /\ gate' = [gate EXCEPT !.persistor = i]
         /\ shown' = GateRenders(gate.bootstrapped)
  /\ renders' = renders + 1
  /\ UNCHANGED <<hasWindow, storage, lastState, keysToProcess, stagedState, notStore>>

\* componentDidMount of PersistGate (the browser only): subscribe to the
\* persistor of the props, then look at it.
GateDidMount ==
  /\ hasWindow
  /\ renders > 0
  /\ ~gate.mounted
  /\ gate' = handlePersistorState(
               [gate EXCEPT !.mounted = TRUE, !.subscribedTo = gate.persistor],
               persistors, gate.persistor)
  /\ shown' = GateRenders(gate'.bootstrapped)
  /\ UNCHANGED <<hasWindow, storeRef, makeStoreCalls, setupListenersCalls, renders,
                 providedStores, root, persistors, storage, lastState, keysToProcess,
                 stagedState, notStore>>

\* rehydrate(key, payload) of persistor i, with the persistors as ps: REHYDRATE
\* goes to the store, then to the persistor's own store, whose subscribers run.
rehydrate(ps, i, payload) ==
  LET newRoot == [autoMergeLevel1(payload, root) EXCEPT !["_persist"] = "rehydrated"]
      reg     == ps[i].registry
      newReg  == IF reg = <<>> THEN reg ELSE Tail(reg)
      newPs   == [ps EXCEPT ![i].registry = newReg,
                            ![i].bootstrapped = (newReg = <<>>),
                            ![i].sealed = TRUE]
  IN  /\ root' = newRoot
      /\ conditionalUpdate(newRoot)
      /\ persistors' = newPs
      /\ gate' = handlePersistorState(gate, newPs, i)
      /\ shown' = IF gate'.bootstrapped /\ ~gate.bootstrapped
                    THEN GateRenders(TRUE) ELSE shown

RehydrateFrame ==
  UNCHANGED <<hasWindow, storeRef, makeStoreCalls, setupListenersCalls, renders,
              providedStores, storage, stagedState, notStore>>

\* The stored state read by the PERSIST of persistor i arrives.
StoredStateRead(i) ==
  /\ i \in 1..Len(persistors)
  /\ persistors[i].reading
  /\ LET ps == [persistors EXCEPT ![i].reading = FALSE] IN
       IF persistors[i].sealed
         THEN /\ persistors' = ps
              /\ UNCHANGED <<root, gate, shown, lastState, keysToProcess>>
         ELSE rehydrate(ps, i, persistors[i].payload)
  /\ RehydrateFrame

\* The timeout set by the PERSIST of persistor i passes.
PersistTimeout(i) ==
  /\ i \in 1..Len(persistors)
  /\ persistors[i].timer
  /\ LET ps == [persistors EXCEPT ![i].timer = FALSE] IN
       IF persistors[i].sealed
         THEN /\ persistors' = ps
              /\ UNCHANGED <<root, gate, shown, lastState, keysToProcess>>
         ELSE rehydrate(ps, i, <<>>)
  /\ RehydrateFrame

DispatchFrame ==
  UNCHANGED <<hasWindow, storeRef, makeStoreCalls, setupListenersCalls, renders,
              providedStores, persistors, gate, shown, storage, stagedState, notStore>>

\* An action of the global slice changes it; persistReducer hands the new
\* state to the persistoid once rehydrated.
SetGlobal(v) ==
  /\ storeRef # <<>>
  /\ root["global"] # v
  /\ root' = [root EXCEPT !["global"] = v]
  /\ conditionalUpdate(root')
  /\ DispatchFrame

\* The query cache changes the api slice, through the same reducer.
ApiUpdate(v) ==
  /\ storeRef # <<>>
  /\ root["api"] # v
  /\ root' = [root EXCEPT !["api"] = v]
  /\ conditionalUpdate(root')
  /\ DispatchFrame

\* processNextKey of the persistoid: serialize one key; after the last one
\* the staged state is written as the item.
ProcessNextKey ==
  /\ keysToProcess # <<>>
  /\ LET key == Head(keysToProcess) IN
       /\ stagedState' = [k \in DOMAIN stagedState \cup {key} |->
                            IF k = key THEN Serialize(lastState[key]) ELSE stagedState[k]]
       /\ keysToProcess' = Tail(keysToProcess)
       /\ IF keysToProcess' = <<>> THEN setItem(stagedState') ELSE UNCHANGED storage
  /\ UNCHANGED <<hasWindow, storeRef, makeStoreCalls, setupListenersCalls, renders,
                 providedStores, root, persistors, gate, shown, lastState, notStore>>

NextStore ==
  \/ Render
  \/ GateDidMount
  \/ \E i \in 1..MaxRenders : StoredStateRead(i)
  \/ \E i \in 1..MaxRenders : PersistTimeout(i)
  \/ \E v \in GlobalVals : SetGlobal(v)
  \/ \E v \in ApiVals : ApiUpdate(v)
  \/ ProcessNextKey

SpecStore == InitStore /\ [][NextStore]_vars

\* C6: over the renders of one mounted StoreProvider the store is made once:
\* makeStore and setupListeners have each been called exactly once, and every
\* render handed the same store, the one in storeRef, to Provider.
C6_StoreCreatedOnce ==
  renders > 0 =>
    /\ makeStoreCalls = 1
    /\ setupListenersCalls = 1
    /\ storeRef # <<>>
    /\ providedStores = {storeRef[1]}

C6_Witness ==
  /\ renders >= 3
  /\ makeStoreCalls = 1
  /\ shown = "children"

\* The rehydration started by the first persistStore call has completed: its
\* REHYDRATE reached the store and its persistor is bootstrapped.
RehydrationCompleted ==
  /\ root["_persist"] = "rehydrated"
  /\ Len(persistors) > 0
  /\ persistors[1].sealed
  /\ persistors[1].bootstrapped

\* C7: the children are shown only after rehydration has completed; until
\* then every render shows the loading value (null).
C7_ChildrenAfterRehydration ==
  renders > 0 =>
    /\ shown = "children" => RehydrationCompleted
    /\ ~RehydrationCompleted => shown = "loading"

C7_Witness ==
  /\ shown = "children"
  /\ renders >= 2
  /\ root["global"] = "dark"
  /\ keysToProcess = <<>>

\* The item holds the global slice and not the api slice; once the persistoid
\* has nothing left to write, the slice it holds is the store's.
StorageHoldsGlobalOnly ==
  /\ storage # <<>> =>
       /\ "global" \in DOMAIN storage[1]
       /\ "api" \notin DOMAIN storage[1]
  /\ (hasWindow /\ root["_persist"] = "rehydrated" /\ keysToProcess = <<>>) =>
       /\ storage # <<>>
       /\ Deserialize(storage[1]["global"]) = root["global"]

\* The step delivers a REHYDRATE to the store.
RehydrateStep ==
  /\ \E i \in 1..Len(persistors) : ~persistors[i].sealed /\ persistors'[i].sealed

\* C9: whatever is dispatched, the item written under the persist key holds
\* the global slice and never the api slice, and a rehydration leaves the api
\* slice as it was.
C9_OnlyGlobalPersisted ==
  /\ []StorageHoldsGlobalOnly
  /\ [][RehydrateStep => root'["api"] = root["api"]]_vars

C9_Witness ==
  /\ hasWindow
  /\ root["_persist"] = "rehydrated"
  /\ root["api"] = "cached"
  /\ root["global"] = "dark"
  /\ keysToProcess = <<>>
  /\ "_persist" \in DOMAIN stagedState
  /\ storage # <<>>

====
